---- MODULE Spec2Model ----
(***************************************************************************)
(* mauth: the MultiAuth WSGI middleware (src/mauth/middleware.py).         *)
(*                                                                         *)
(* Strings whose characters matter (the Authorization header, the path     *)
(* segments, the reseller prefix, account names, S3 access keys and        *)
(* signatures) are sequences of one-character strings.  Other strings      *)
(* (tokens, users, keys, role names, hosts) are atoms.  Python's None is   *)
(* NONE == <<>> and a present value x is Some(x) == <<x>>.                 *)
(***************************************************************************)
EXTENDS Integers, Sequences, FiniteSets, TLC

VARIABLES conf, now, cache, res, dec, reqs

vars == <<conf, now, cache, res, dec, reqs>>

NONE == <<>>
Some(x) == <<x>>

\* ------------------------------------------------------------------ bounds
MaxTime == 2
MaxExpires == 1
NProcs == 2

\* ------------------------------------------------------- string primitives
\* str.startswith
StartsWith(s, p) ==
    /\ Len(s) >= Len(p)
    /\ SubSeq(s, 1, Len(p)) = p

\* index of the first occurrence of the non-empty p in s at or after i, else 0
RECURSIVE FindFrom(_, _, _)
FindFrom(s, p, i) ==
    IF i + Len(p) - 1 > Len(s) THEN 0
    ELSE IF SubSeq(s, i, i + Len(p) - 1) = p THEN i
    ELSE FindFrom(s, p, i + 1)

\* str.replace(old, new) for a non-empty old: every non-overlapping
\* occurrence, left to right
RECURSIVE Replace(_, _, _)
Replace(s, old, new) ==
    LET i == FindFrom(s, old, 1) IN
    IF i = 0 THEN s
    ELSE SubSeq(s, 1, i - 1) \o new
         \o Replace(SubSeq(s, i + Len(old), Len(s)), old, new)

\* str.split(sep) for a one-character sep: the pieces, empty ones included
RECURSIVE Split(_, _)
Split(s, sep) ==
    LET i == FindFrom(s, <<sep>>, 1) IN
    IF i = 0 THEN <<s>>
    ELSE <<SubSeq(s, 1, i - 1)>> \o Split(SubSeq(s, i + 1, Len(s)), sep)

\* index of the last occurrence of the character sep in s, else 0
RECURSIVE LastIndex(_, _, _)
LastIndex(s, sep, i) ==
    IF i = 0 THEN 0
    ELSE IF s[i] = sep THEN i
    ELSE LastIndex(s, sep, i - 1)

\* str.rsplit(sep, 1): one piece without sep, else the two pieces around
\* the last sep
RSplit1(s, sep) ==
    LET i == LastIndex(s, sep, Len(s)) IN
    IF i = 0 THEN <<s>>
    ELSE <<SubSeq(s, 1, i - 1), SubSeq(s, i + 1, Len(s))>>

\* ':'.join(roles): the role atoms with ":" between them; empty for no roles
RECURSIVE Join(_)
Join(roles) ==
    IF roles = <<>> THEN <<>>
    ELSE IF Len(roles) = 1 THEN <<roles[1]>>
    ELSE <<roles[1], ":">> \o Join(Tail(roles))

\* ---------------------------------------------------------------- literals
AWS == <<"A", "W", "S">>
V1 == <<"v", "1">>
V10 == <<"v", "1", ".", "0">>
AUTH == <<"a", "u", "t", "h">>
AuthUrlPieces == {AUTH, V10}


\* ------------------------------------------------- configuration (__init__)
\* conf.get('reseller_prefix', '').strip()
ResellerPrefixes == {<<>>, <<"R">>}
\* int(conf.get('cache_timeout', 86400)); 0 switches reads of the cache off
CacheTimeouts == {0, 86400}
\* conf.get('allowed_sync_hosts', '127.0.0.1') split on ','
AllowedSyncHosts == {"127.0.0.1"}

\* ------------------------------------------------------ python primitives
\* truth value of an optional atom string: None and '' are false
Truthy(o) == o # NONE /\ o[1] # ""

\* dict.get / memcache get: the value under k, None when there is none
Lookup(f, k) == IF k \in DOMAIN f THEN f[k] ELSE NONE

\* env.get('HTTP_X_AUTH_TTL', 1) > 0 in CPython 2: the default 1 is above
\* 0, and a header value is a str, which orders above every int
TtlEnabled(ttl) == IF ttl = NONE THEN 1 > 0 ELSE TRUE

\* env.get('HTTP_X_AUTH_TOKEN', env.get('HTTP_X_STORAGE_TOKEN', None)):
\* the storage token only when the X-Auth-Token key is absent
HeaderToken(env) == IF env.xtoken # NONE THEN env.xtoken ELSE env.stoken

\* ------------------------------------------------- external collaborators
\* swift.common.utils.split_path(path, minsegs, maxsegs, rest_with_last=True)
\* on a path given as its segments after the leading '/': <<>> is the empty
\* path, <<V1>> is '/v1', <<V1, <<>>>> is '/v1/'.  ValueError (ok = FALSE)
\* when fewer than minsegs segments or an empty one among the first minsegs.
split_path(path, minsegs, maxsegs) ==
    LET n == IF Len(path) < maxsegs THEN Len(path) ELSE maxsegs IN
    IF n < minsegs \/ \E i \in 1..minsegs : path[i] = <<>>
    THEN [ok |-> FALSE, segs |-> <<>>]
    ELSE [ok |-> TRUE,
          segs |-> [i \in 1..maxsegs |-> IF i <= n THEN Some(path[i]) ELSE NONE]]

\* base64.urlsafe_b64decode(header).encode("utf-8") on the token atoms:
\* '' decodes to '', 'bQ==' to 'm'; 'T1' and 'T2' have incorrect padding
\* (TypeError)
B64Decode(tok) ==
    CASE tok = "" -> [ok |-> TRUE, val |-> <<>>]
      [] tok = "bQ==" -> [ok |-> TRUE, val |-> <<"m">>]
      [] OTHER -> [ok |-> FALSE, val |-> <<>>]

\* base64.b64encode(hmac.new(secret, msg, hashlib.sha1).digest()) as an
\* ideal MAC: an injective tagging of (secret, msg)
Sign(secret, msg) == <<"#">> \o secret \o <<"#">> \o msg

\* the identity the provider holds for a credential, when it answers with
\* expiry e
ProviderIdentity(cred, e) ==
    CASE cred = "T2" ->
           [account |-> <<"b">>, roles |-> <<>>, token |-> "T2",
            expires |-> e, account_url |-> "url_b"]
      [] OTHER ->
           [account |-> <<"a">>, roles |-> <<"admin">>, token |-> "T1",
            expires |-> e, account_url |-> "url_a"]

\* the provider's answer: pe = 0 is a failure (None), pe > 0 an identity
\* expiring at pe
ProviderAnswer(cred, pe) ==
    IF pe = 0 THEN NONE ELSE Some(ProviderIdentity(cred, pe))

\* get_s3_identity(self): the interface stub, called without arguments
get_s3_identity(pe) == ProviderAnswer("K", pe)
\* get_identity(self): the interface stub, called without arguments
get_identity(pe) == ProviderAnswer("u", pe)
\* validate_token(self) called as validate_token(token)
validate_token(token, pe) == ProviderAnswer(token, pe)


\* --------------------------------------------------- MultiAuth.__call__
\* What one call of the middleware did.  out: "app" (forwarded to self.app),
\* "respond" (the token response returned directly), "notfound"
\* (HTTPNotFound returned), "raise" (an exception left __call__, named by
\* exc).  hook is env['swift.authorize'], identity env['mauth.identity'],
\* remote_user env['REMOTE_USER'], path env['PATH_INFO']; calls are the
\* provider entry points invoked and reads the cache namespaces read; seen
\* is the cache entry the read returned, src where the identity used came
\* from, wrote the token key written; req, pe and at are the inputs and
\* the time() of the call.
Start(env, pe, t) ==
    [out |-> "none", exc |-> "none", hook |-> "none", identity |-> NONE,
     remote_user |-> NONE, path |-> env.path, calls |-> {}, reads |-> {},
     wrote |-> NONE, headers |-> NONE, src |-> "none", seen |-> NONE,
     req |-> env, pe |-> pe, at |-> t]

\* raise: the exception leaves __call__
Raise(R, c, name) ==
    [r |-> [R EXCEPT !.out = "raise", !.exc = name], cache |-> c]

\* env['swift.authorize'] = hook; return self.app(env, start_response)
Forward(R, c, hook) ==
    [r |-> [R EXCEPT !.out = "app", !.hook = hook], cache |-> c]

\* Fresh with the boundary on the wrong side: expires >= time()
FreshOrNow(expires, t) == expires >= t

\* expires > time(): the entry is still good
Fresh(expires, t) == expires > t

\* ValidCache with the comparison turned round: expires < time()
ValidCacheStale(cf, mr, t) ==
    /\ mr # NONE
    /\ cf.cache_timeout > 0
    /\ mr[1].expires < t

\* memcache_result and self.cache_timeout > 0 and expires > time()
ValidCache(cf, mr, t) ==
    /\ mr # NONE
    /\ cf.cache_timeout > 0
    /\ Fresh(mr[1].expires, t)

\* lines 240-245: the identity goes on the request and the full hook is
\* installed
StoreIdentity(R, c, identity) ==
    Forward([R EXCEPT !.identity = Some(identity),
                      !.remote_user = Some(Join(identity.roles))],
            c, "authorize")

\* AfterValidate failing open: without an identity the request goes on
\* with the full hook
AfterValidateOpen(R, c, token, identity) ==
    IF identity # NONE
    THEN StoreIdentity(
             [R EXCEPT !.src = "provider", !.wrote = Some(token)],
             [c EXCEPT !.token =
                 [k \in DOMAIN c.token \cup {token} |->
                     IF k = token
                     THEN Some([expires |-> identity[1].expires,
                                identity |-> identity[1]])
                     ELSE c.token[k]]],
             identity[1])
    ELSE Forward(R, c, "authorize")

\* lines 226-234: a provider identity is cached under mauth_token/<token>
\* and used; no identity is a denial
AfterValidate(R, c, token, identity) ==
    IF identity # NONE
    THEN StoreIdentity(
             [R EXCEPT !.src = "provider", !.wrote = Some(token)],
             [c EXCEPT !.token =
                 [k \in DOMAIN c.token \cup {token} |->
                     IF k = token
                     THEN Some([expires |-> identity[1].expires,
                                identity |-> identity[1]])
                     ELSE c.token[k]]],
             identity[1])
    ELSE Forward(R, c, "denied_response")

\* lines 205-245.  identity is what the S3 stage resolved (or None); tok
\* is the local variable token: bound or not, and its value
TokenStage(cf, c, t, env, pe, R, identity, tok) ==
    LET hdr == HeaderToken(env) IN
    IF identity = NONE /\ ~Truthy(hdr)
    THEN Forward(R, c, "authorize")
    ELSE IF identity # NONE
    THEN StoreIdentity(R, c, identity[1])
    ELSE IF ~tok.bound
    THEN Raise(R, c, "UnboundLocalError")
    ELSE
      LET token == tok.val[1]
          mr == Lookup(c.token, token)
          R1 == [R EXCEPT !.reads = @ \cup {"token"}, !.seen = mr]
      IN
      IF ValidCache(cf, mr, t)
      THEN StoreIdentity([R1 EXCEPT !.src = "cache"],
                         c, mr[1].identity)
      ELSE AfterValidate([R1 EXCEPT !.calls = @ \cup {"validate_token"}],
                         c, token, validate_token(token, pe))

\* lines 174-201: a request for a token
AuthRequest(cf, c, t, env, pe, R) ==
    IF Truthy(env.user) /\ Truthy(env.key)
    THEN
      LET mr == Lookup(c.creds, <<env.user[1], env.key[1]>>)
          R1 == [R EXCEPT !.reads = @ \cup {"creds"}, !.seen = mr]
      IN
      IF ValidCache(cf, mr, t) /\ TtlEnabled(env.ttl)
      THEN [r |-> [R1 EXCEPT
                     !.out = "respond", !.src = "cache",
                     !.headers = Some([x_auth_token |-> mr[1].identity.token,
                                       x_storage_token |-> mr[1].identity.token,
                                       x_storage_url |-> mr[1].identity.account_url])],
            cache |-> c]
      ELSE \* self.get_identity(): the answer is dropped, token stays unbound
           TokenStage(cf, c, t, env, pe,
                      [R1 EXCEPT !.calls = @ \cup {"get_identity"}],
                      NONE, [bound |-> FALSE, val |-> NONE])
    ELSE Forward(R, c, "denied_response")

\* lines 165-203: not an S3 call
NativeStage(cf, c, t, env, pe, R) ==
    LET sp == split_path(env.path, 1, 2) IN
    IF ~sp.ok
    THEN [r |-> [R EXCEPT !.out = "notfound"], cache |-> c]
    ELSE IF sp.segs[1][1] \in AuthUrlPieces
    THEN AuthRequest(cf, c, t, env, pe, R)
    ELSE TokenStage(cf, c, t, env, pe, R, NONE,
                    [bound |-> TRUE, val |-> HeaderToken(env)])

\* lines 153-156: PATH_INFO.replace(s3_apikey, <prefix>_<account>)
RewritePath(cf, path, apikey, account) ==
    LET new == IF cf.reseller_prefix # <<>>
               THEN cf.reseller_prefix \o <<"_">> \o account
               ELSE account
    IN [i \in 1..Len(path) |-> Replace(path[i], apikey, new)]

\* lines 144-158: the S3 key is well formed
S3Resolve(cf, c, t, env, pe, R, apikey, sig) ==
    LET mr == Lookup(c.s3key, apikey)
        R1 == [R EXCEPT !.reads = @ \cup {"s3key"},
                       !.seen = IF mr = NONE THEN NONE
                                ELSE Some([expires |-> mr[1].expires,
                                           identity |-> mr[1].data.identity])]
    IN
    IF ValidCache(cf, mr, t)
    THEN
      LET d == B64Decode(IF env.xtoken = NONE THEN "" ELSE env.xtoken[1]) IN
      IF ~d.ok
      THEN Raise(R1, c, "TypeError")
      ELSE IF sig = Sign(mr[1].data.secret, d.val)
      THEN TokenStage(cf, c, t, env, pe,
                      [R1 EXCEPT !.src = "cache",
                                 !.path = RewritePath(cf, env.path, apikey,
                                              mr[1].data.identity.account)],
                      Some(mr[1].data.identity),
                      [bound |-> TRUE, val |-> Some(mr[1].data.identity.token)])
      ELSE \* a mismatch assigns nothing
           TokenStage(cf, c, t, env, pe, R1, NONE,
                      [bound |-> FALSE, val |-> NONE])
    ELSE \* self.get_s3_identity(): the answer is dropped
         TokenStage(cf, c, t, env, pe,
                    [R1 EXCEPT !.calls = @ \cup {"get_s3_identity"}],
                    NONE, [bound |-> FALSE, val |-> NONE])

\* lines 131-162: the Authorization header starts with AWS
S3Stage(cf, c, t, env, pe, R) ==
    LET words == Split(env.auth[1], " ") IN
    IF Len(words) < 2
    THEN Raise(R, c, "IndexError")
    ELSE
      LET pair == RSplit1(words[2], ":") IN
      IF Len(pair) # 2
      THEN Raise(R, c, "ValueError")
      ELSE IF pair[1] # <<>> /\ pair[2] # <<>>
      THEN S3Resolve(cf, c, t, env, pe, R, pair[1], pair[2])
      ELSE Forward(R, c, "denied_response")

\* MultiAuth.__call__(env, start_response)
Handle(cf, c, t, env, pe) ==
    LET s3 == env.auth
        R == Start(env, pe, t)
    IN
    IF s3 # NONE /\ s3[1] # <<>> /\ StartsWith(s3[1], AWS)
    THEN S3Stage(cf, c, t, env, pe, R)
    ELSE IF s3 = NONE \/ s3[1] = <<>>
    THEN NativeStage(cf, c, t, env, pe, R)
    ELSE \* "if not s3" is skipped: token is never bound
         TokenStage(cf, c, t, env, pe, R, NONE,
                    [bound |-> FALSE, val |-> NONE])


\* ------------------------------------------------- MultiAuth.authorize
\* swift.common.middleware.acl.referrer_allowed(referrer, referrer_acl):
\* the rules in order, a "-host" rule withdrawing and a "*" or "host" rule
\* granting; the referer's host is 'unknown' when there is none.  A rule is
\* [neg, host].
RECURSIVE ReferrerScan(_, _, _)
ReferrerScan(rhost, rules, allow) ==
    IF rules = <<>> THEN allow
    ELSE LET m == Head(rules) IN
         ReferrerScan(rhost, Tail(rules),
             IF m.neg
             THEN (IF m.host = rhost THEN FALSE ELSE allow)
             ELSE (IF m.host = "*" \/ m.host = rhost THEN TRUE ELSE allow))

referrer_allowed(referer, referrers) ==
    ReferrerScan(IF referer = NONE THEN "unknown" ELSE referer[1],
                 referrers, FALSE)

\* req.remote_user: REMOTE_USER is set and not the empty string
RemoteUser(R) ==
    /\ R.remote_user # NONE
    /\ \E i \in 1..Len(R.remote_user[1]) : R.remote_user[1][i] # ""

\* denied_response with the two statuses exchanged
denied_responseSwapped(R) == IF RemoteUser(R) THEN "401" ELSE "403"

\* MultiAuth.denied_response(req): 403 with a remote user, else 401
denied_response(R) == IF RemoteUser(R) THEN "403" ELSE "401"

Decision(status, owner, rule, a) ==
    [status |-> status, owner |-> owner, rule |-> rule, a |-> a]

\* the gate asking only for an account
PrefixGateAnyAccount(cf, acct) ==
    /\ acct # NONE
    /\ acct[1] # <<>>

\* lines 257-258: the reseller-prefix gate lets the account through
PrefixGate(cf, acct) ==
    /\ acct # NONE
    /\ acct[1] # <<>>
    /\ StartsWith(acct[1], cf.reseller_prefix)

\* lines 261-264: the account with the reseller prefix removed
StripPrefix(cf, acct) ==
    IF cf.reseller_prefix # <<>>
    THEN SubSeq(acct, Len(cf.reseller_prefix) + 2, Len(acct))
    ELSE acct

\* line 269: account == identity.get('account'); {} has no account
IsOwner(identity, account) ==
    /\ identity # NONE
    /\ account = identity[1].account

\* the container-sync conditions without the timestamp
SyncAllowedNoTimestamp(cf, a) ==
    /\ Truthy(a.sync_key)
    /\ a.sync_key = a.hdr_sync_key
    /\ (a.remote_addr \in cf.allowed_sync_hosts
        \/ a.remote_client \in cf.allowed_sync_hosts)

\* lines 274-275: the container-sync conditions
SyncAllowed(cf, a) ==
    /\ Truthy(a.sync_key)
    /\ a.sync_key = a.hdr_sync_key
    /\ a.timestamp
    /\ (a.remote_addr \in cf.allowed_sync_hosts
        \/ a.remote_client \in cf.allowed_sync_hosts)

\* lines 288-291: one of the identity's roles is an ACL group
RoleAllowed(identity, groups) ==
    /\ identity # NONE
    /\ \E i \in 1..Len(identity[1].roles) : identity[1].roles[i] \in groups

\* AclRules with the role ACL ahead of the referrer ACL
AclRulesRoleFirst(R, a, obj) ==
    IF RoleAllowed(R.identity, a.groups)
    THEN Decision("allow", FALSE, "role", a)
    ELSE IF referrer_allowed(a.referer, a.referrers)
    THEN (IF (obj # NONE /\ obj[1] # <<>>) \/ ".rlistings" \in a.groups
          THEN Decision("allow", FALSE, "referrer", a)
          ELSE Decision(denied_response(R), FALSE, "referrer", a))
    ELSE Decision(denied_response(R), FALSE, "final", a)

\* AclRules marking the request as its account's owner on a role match
AclRulesOwnerOnRole(R, a, obj) ==
    IF referrer_allowed(a.referer, a.referrers)
    THEN (IF (obj # NONE /\ obj[1] # <<>>) \/ ".rlistings" \in a.groups
          THEN Decision("allow", FALSE, "referrer", a)
          ELSE Decision(denied_response(R), FALSE, "referrer", a))
    ELSE IF RoleAllowed(R.identity, a.groups)
    THEN Decision("allow", TRUE, "role", a)
    ELSE Decision(denied_response(R), FALSE, "final", a)

\* lines 279-294: the referrer ACL, the role ACL and the final denial
AclRules(R, a, obj) ==
    IF referrer_allowed(a.referer, a.referrers)
    THEN (IF (obj # NONE /\ obj[1] # <<>>) \/ ".rlistings" \in a.groups
          THEN Decision("allow", FALSE, "referrer", a)
          ELSE Decision(denied_response(R), FALSE, "referrer", a))
    ELSE IF RoleAllowed(R.identity, a.groups)
    THEN Decision("allow", FALSE, "role", a)
    ELSE Decision(denied_response(R), FALSE, "final", a)

\* authorize with the ownership rule after the ACL rules
authorizeOwnerLast(cf, R, a) ==
    LET sp == split_path(R.path, 1, 4) IN
    IF ~sp.ok
    THEN Decision("404", FALSE, "path", a)
    ELSE IF ~PrefixGate(cf, sp.segs[2])
    THEN Decision(denied_response(R), FALSE, "gate", a)
    ELSE IF SyncAllowed(cf, a)
    THEN Decision("allow", FALSE, "sync", a)
    ELSE IF AclRules(R, a, sp.segs[4]).status = "allow"
    THEN AclRules(R, a, sp.segs[4])
    ELSE IF AclRules(R, a, sp.segs[4]).rule = "referrer"
    THEN AclRules(R, a, sp.segs[4])
    ELSE IF IsOwner(R.identity, StripPrefix(cf, sp.segs[2][1]))
    THEN Decision("allow", TRUE, "owner", a)
    ELSE AclRules(R, a, sp.segs[4])

\* authorize answering 404 for a path without an account
authorizeAccountNotFound(cf, R, a) ==
    LET sp == split_path(R.path, 1, 4) IN
    IF ~sp.ok \/ sp.segs[2] = NONE
    THEN Decision("404", FALSE, "path", a)
    ELSE IF ~PrefixGate(cf, sp.segs[2])
    THEN Decision(denied_response(R), FALSE, "gate", a)
    ELSE IF IsOwner(R.identity, StripPrefix(cf, sp.segs[2][1]))
    THEN Decision("allow", TRUE, "owner", a)
    ELSE IF SyncAllowed(cf, a)
    THEN Decision("allow", FALSE, "sync", a)
    ELSE AclRules(R, a, sp.segs[4])

\* MultiAuth.authorize(req) on the request __call__ forwarded; a is what
\* the downstream handler and the client add: the container's ACL, the
\* referer, the sync key inputs and the client addresses
authorize(cf, R, a) ==
    LET sp == split_path(R.path, 1, 4) IN
    IF ~sp.ok
    THEN Decision("404", FALSE, "path", a)
    ELSE IF ~PrefixGate(cf, sp.segs[2])
    THEN Decision(denied_response(R), FALSE, "gate", a)
    ELSE IF IsOwner(R.identity, StripPrefix(cf, sp.segs[2][1]))
    THEN Decision("allow", TRUE, "owner", a)
    ELSE IF SyncAllowed(cf, a)
    THEN Decision("allow", FALSE, "sync", a)
    ELSE AclRules(R, a, sp.segs[4])


\* ------------------------------------------------------------ the inputs
K == <<"k">>
J == <<"j">>
S3Secret == <<"s">>
Basic == <<"B", " ", "x">>
C1seg == <<"c", "k">>
O1seg == <<"o">>

S3Header(apikey, sig) == AWS \o <<" ">> \o apikey \o <<":">> \o sig

\* Authorization headers of S3 requests: a signature over the challenge
\* 'm', one over the empty challenge, a wrong one, an uncached key, and the
\* malformed ones ('AWS mal', 'AWS :x', 'AWS k:', 'AWS')
S3Headers ==
    {Some(S3Header(K, Sign(S3Secret, <<"m">>))),
     Some(S3Header(K, Sign(S3Secret, <<>>))),
     Some(S3Header(K, <<"x">>)),
     Some(S3Header(J, Sign(S3Secret, <<"m">>))),
     Some(AWS \o <<" ", "m", "a", "l">>),
     Some(S3Header(<<>>, <<"x">>)),
     Some(S3Header(K, <<>>)),
     Some(AWS)}

Req(auth, path, user, key, xtoken, stoken, ttl) ==
    [auth |-> auth, path |-> path, user |-> user, key |-> key,
     xtoken |-> xtoken, stoken |-> stoken, ttl |-> ttl]

\* swift3 hands on '/v1/<access key>/<bucket>' with the challenge in
\* X-Auth-Token
S3Requests ==
    {Req(h, <<V1, K, C1seg>>, NONE, NONE, x, NONE, NONE) :
        h \in S3Headers, x \in {NONE, Some("bQ=="), Some("T1")}}

\* requests for a token: /v1.0 or /auth with X-Auth-User and X-Auth-Key
AuthRequests ==
    {Req(NONE, p, uk[1], uk[2], x, NONE, l) :
        p \in {<<V10>>, <<AUTH>>},
        uk \in {<<NONE, NONE>>, <<Some("u"), Some("")>>,
                <<Some("u"), Some("k1")>>, <<Some("u"), Some("k2")>>},
        x \in {NONE, Some("T1")},
        l \in {NONE, Some("0")}}

\* the account segments of resource paths
PathAccounts ==
    {<<"R", "_", "a">>, <<"R", "_", "b">>, <<"R", "x", "a">>, <<"a">>, <<>>}

ResourcePaths ==
    {<<>>, <<V1>>, <<V1, <<"R", "_", "a">>>>}
    \cup {<<V1, acct, C1seg>> : acct \in PathAccounts}
    \cup {<<V1, acct, C1seg, O1seg>> : acct \in PathAccounts}

\* X-Auth-Token and X-Storage-Token as they come together
TokenHeaders ==
    {<<NONE, NONE>>, <<Some(""), Some("T1")>>, <<Some("T1"), NONE>>,
     <<Some("T2"), NONE>>, <<NONE, Some("T1")>>}

\* resource requests: a bearer token, or none; some with an Authorization
\* header that is not S3's
TokenRequests ==
    {Req(NONE, p, NONE, NONE, xs[1], xs[2], NONE) :
        p \in ResourcePaths, xs \in TokenHeaders}
    \cup {Req(Some(Basic), p, NONE, NONE, xs[1], xs[2], NONE) :
        p \in {<<V10>>, <<V1, <<"R", "_", "a">>, C1seg>>}, xs \in TokenHeaders}
    \cup {Req(Some(Basic), <<>>, NONE, NONE, NONE, NONE, NONE),
          Req(Some(Basic), <<V10>>, Some("u"), Some("k1"), NONE, NONE, NONE)}

Requests == S3Requests \cup AuthRequests \cup TokenRequests

\* the provider fails (0) or answers with an identity expiring at MaxExpires
ProviderAnswers == {0, MaxExpires}

\* what authorize reads beside the forwarded request
Authz(sk, hk, ts, addr, client, referer, referrers, groups) ==
    [sync_key |-> sk, hdr_sync_key |-> hk, timestamp |-> ts,
     remote_addr |-> addr, remote_client |-> client, referer |-> referer,
     referrers |-> referrers, groups |-> groups]

ReferrerAcls ==
    {<<>>, <<[neg |-> FALSE, host |-> "h1"]>>,
     <<[neg |-> FALSE, host |-> "*"], [neg |-> TRUE, host |-> "h2"]>>}

GroupAcls == {{}, {"admin"}, {".rlistings"}, {"admin", ".rlistings"}}

\* the sync inputs: everything matching, and each condition failing alone
SyncInputs ==
    {<<Some("sk"), Some("sk"), TRUE, "127.0.0.1", "127.0.0.1">>,
     <<Some("sk"), Some("sk"), TRUE, "10.0.0.1", "127.0.0.1">>,
     <<Some("sk"), Some("bad"), TRUE, "127.0.0.1", "127.0.0.1">>,
     <<Some("sk"), Some("sk"), FALSE, "127.0.0.1", "127.0.0.1">>,
     <<Some("sk"), Some("sk"), TRUE, "10.0.0.1", "10.0.0.1">>,
     <<Some(""), Some(""), TRUE, "127.0.0.1", "127.0.0.1">>}

\* every ACL and referer without container sync, and the sync inputs with
\* two ACLs
AuthzInputs ==
    {Authz(NONE, NONE, FALSE, "10.0.0.1", "10.0.0.1", f, r, g) :
        f \in {NONE, Some("h1"), Some("h2")},
        r \in ReferrerAcls, g \in GroupAcls}
    \cup {Authz(y[1], y[2], y[3], y[4], y[5], Some("h1"), r, {}) :
        y \in SyncInputs,
        r \in {<<>>, <<[neg |-> FALSE, host |-> "h1"]>>}}

\* ------------------------------------------------------------ the machine
\* the identity the provider's extension cached for the S3 key K and for
\* the credentials (u, k1)
CachedIdentity ==
    [account |-> <<"a">>, roles |-> <<"admin">>, token |-> "T1",
     expires |-> MaxExpires, account_url |-> "url_a"]

NoDecision == Decision("none", FALSE, "none", NONE)

\* the token requests in flight together (lines 213-245), each at its next
\* step: pc, the local variables token and identity, and got, what
\* validate_token answered this request
Procs == 1..NProcs

NoRequests ==
    [p \in Procs |->
        [pc |-> "idle", token |-> NONE, identity |-> NONE, got |-> NONE]]

\* no request is in the middleware
Idle == Start(Req(NONE, <<>>, NONE, NONE, NONE, NONE, NONE), 0, 0)

Init ==
    /\ conf \in [reseller_prefix : ResellerPrefixes,
                 cache_timeout : CacheTimeouts,
                 allowed_sync_hosts : {AllowedSyncHosts}]
    /\ now = 0
    /\ cache = [s3key |-> [k \in {K} |->
                              Some([expires |-> MaxExpires,
                                    data |-> [secret |-> S3Secret,
                                              identity |-> CachedIdentity]])],
                creds |-> [k \in {<<"u", "k1">>} |->
                              Some([expires |-> MaxExpires,
                                    identity |-> CachedIdentity])],
                token |-> [k \in {"T1", "T2"} |-> NONE]]
    /\ res = Idle
    /\ dec = NoDecision
    /\ reqs = NoRequests

\* a request goes through __call__
Call(env, pe) ==
    LET h == Handle(conf, cache, now, env, pe) IN
    /\ res = Idle
    /\ res' = h.r
    /\ cache' = h.cache
    /\ UNCHANGED <<conf, now, dec, reqs>>

\* the downstream handler calls env['swift.authorize'](req), the full hook
AuthorizeHook(a) ==
    /\ res.out = "app"
    /\ res.hook = "authorize"
    /\ dec = NoDecision
    /\ dec' = authorize(conf, res, a)
    /\ UNCHANGED <<conf, now, cache, res, reqs>>

\* the downstream handler calls env['swift.authorize'](req), the deny-only
\* hook
DeniedHook ==
    /\ res.out = "app"
    /\ res.hook = "denied_response"
    /\ dec = NoDecision
    /\ dec' = Decision(denied_response(res), FALSE, "denied_response", NONE)
    /\ UNCHANGED <<conf, now, cache, res, reqs>>

\* the request is answered and leaves
Complete ==
    /\ res # Idle
    /\ res' = Idle
    /\ dec' = NoDecision
    /\ UNCHANGED <<conf, now, cache, reqs>>

\* time() moves on between requests
Tick ==
    /\ res = Idle
    /\ now < MaxTime
    /\ now' = now + 1
    /\ UNCHANGED <<conf, cache, res, dec, reqs>>

CallAny == \E env \in Requests, pe \in ProviderAnswers : Call(env, pe)
AuthorizeAny == \E a \in AuthzInputs : AuthorizeHook(a)

Next == CallAny \/ AuthorizeAny \/ DeniedHook \/ Complete \/ Tick

Spec == Init /\ [][Next]_vars


\* ---------------------------------------------- token requests in flight
\* The token path of __call__ for requests running together: a request
\* gives way to the others where it waits for memcache or for the provider
\* (the get of line 216, validate_token on line 225, the set of line 228).

\* what validate_token may answer: no identity, or one expiring at
\* MaxExpires or one later
RaceAnswers == {0, MaxExpires, MaxExpires + 1}

\* the cache write with one key for every token
TokenCacheSetOneKey(c, token, identity) ==
    [c EXCEPT !.token =
        [k \in DOMAIN c.token \cup {token} |->
            Some([expires |-> identity.expires, identity |-> identity])]]

\* line 228: memcache_client.set('mauth_token/%s' % token,
\* (expires, identity))
TokenCacheSet(c, token, identity) ==
    [c EXCEPT !.token =
        [k \in DOMAIN c.token \cup {token} |->
            IF k = token
            THEN Some([expires |-> identity.expires, identity |-> identity])
            ELSE c.token[k]]]

\* line 203: a request with a token header reaches the token path
Arrive(p, token) ==
    /\ reqs[p].pc = "idle"
    /\ reqs' = [reqs EXCEPT ![p].pc = "get", ![p].token = Some(token)]
    /\ UNCHANGED <<conf, now, cache, res, dec>>

\* lines 215-221: the cache is read and a usable entry gives the identity
CacheGet(p) ==
    LET mr == Lookup(cache.token, reqs[p].token[1]) IN
    /\ reqs[p].pc = "get"
    /\ reqs' = IF ValidCache(conf, mr, now)
               THEN [reqs EXCEPT ![p].pc = "finish",
                                 ![p].identity = Some(mr[1].identity)]
               ELSE [reqs EXCEPT ![p].pc = "validate"]
    /\ UNCHANGED <<conf, now, cache, res, dec>>

\* lines 223-226, 231-234: the provider validates the token; without an
\* identity the request is forwarded with the deny-only hook
Validate(p, pe) ==
    LET identity == validate_token(reqs[p].token[1], pe) IN
    /\ reqs[p].pc = "validate"
    /\ reqs' = [reqs EXCEPT ![p].pc = IF identity # NONE THEN "set"
                                      ELSE "denied",
                            ![p].identity = identity,
                            ![p].got = identity]
    /\ UNCHANGED <<conf, now, cache, res, dec>>

\* lines 227-228: the identity is written under the request's token
CacheSet(p) ==
    /\ reqs[p].pc = "set"
    /\ cache' = TokenCacheSet(cache, reqs[p].token[1], reqs[p].identity[1])
    /\ reqs' = [reqs EXCEPT ![p].pc = "finish"]
    /\ UNCHANGED <<conf, now, res, dec>>

\* lines 240-245: the identity goes on the request, which is forwarded
Finish(p) ==
    /\ reqs[p].pc = "finish"
    /\ reqs' = [reqs EXCEPT ![p].pc = "done"]
    /\ UNCHANGED <<conf, now, cache, res, dec>>

ArriveAny == \E p \in Procs, token \in {"T1", "T2"} : Arrive(p, token)
CacheGetAny == \E p \in Procs : CacheGet(p)
ValidateAny == \E p \in Procs, pe \in RaceAnswers : Validate(p, pe)
CacheSetAny == \E p \in Procs : CacheSet(p)
FinishAny == \E p \in Procs : Finish(p)

NextRace ==
    ArriveAny \/ CacheGetAny \/ ValidateAny \/ CacheSetAny \/ FinishAny
    \/ Tick

SpecRace == Init /\ [][NextRace]_vars


\* ====================================================================
\* Properties.  The cases are stated on the request (res.req), the
\* configuration and the cache, not on the branch the model took.
\* ====================================================================
\* a request has gone through __call__
Handled == res # Idle

\* the Authorization header begins with the S3 marker
HasS3Marker(env) ==
    /\ env.auth # NONE
    /\ StartsWith(env.auth[1], AWS)

\* 'access:signature' of a header that has the two parts
S3Words(env) == Split(env.auth[1], " ")
S3Pair(env) == RSplit1(S3Words(env)[2], ":")

\* the header splits into a non-empty access key and a non-empty signature
S3WellFormed(env) ==
    /\ HasS3Marker(env)
    /\ Len(S3Words(env)) >= 2
    /\ Len(S3Pair(env)) = 2
    /\ S3Pair(env)[1] # <<>>
    /\ S3Pair(env)[2] # <<>>

\* the challenge the request carries in X-Auth-Token
Challenge(env) == B64Decode(IF env.xtoken = NONE THEN "" ELSE env.xtoken[1])

\* a non-expired entry is cached under the request's access key, and the
\* cache is in use
S3CacheUsable(env, t) ==
    LET e == Lookup(cache.s3key, S3Pair(env)[1]) IN
    /\ conf.cache_timeout > 0
    /\ e # NONE
    /\ e[1].expires > t

\* the signature recomputed from the cached secret and the decoded
\* challenge differs from the request's
S3Mismatch(env) ==
    LET e == Lookup(cache.s3key, S3Pair(env)[1]) IN
    /\ Challenge(env).ok
    /\ Sign(e[1].data.secret, Challenge(env).val) # S3Pair(env)[2]

\* the request is denied by __call__: forwarded with the deny-only hook
DeniedByCall == res.out = "app" /\ res.hook = "denied_response"

\* the request is forwarded as an anonymous request: the full hook, no
\* identity
ForwardedAnonymous ==
    /\ res.out = "app"
    /\ res.hook = "authorize"
    /\ res.identity = NONE

\* C1: an S3 request whose signature does not match the one recomputed from
\* a non-expired cached secret is denied: no provider entry point is called,
\* the token cache is not read, and it is not forwarded as anonymous.
C1_MismatchDenied ==
    (/\ Handled
     /\ S3WellFormed(res.req)
     /\ S3CacheUsable(res.req, res.at)
     /\ S3Mismatch(res.req))
    => (/\ DeniedByCall
        /\ res.calls = {}
        /\ "token" \notin res.reads
        /\ ~ForwardedAnonymous)


\* the provider entry point behind a cache namespace
ProviderFor(ns) ==
    CASE ns = "s3key" -> "get_s3_identity"
      [] ns = "creds" -> "get_identity"
      [] OTHER -> "validate_token"

\* the cache read of this request returned an entry that had expired
SawExpired ==
    /\ res.seen # NONE
    /\ res.seen[1].expires <= res.at

\* the cache read of this request returned an entry still to expire
SawFresh ==
    /\ res.seen # NONE
    /\ res.seen[1].expires > res.at

\* the request got an identity: on its context, or as a token response
GotIdentity == res.identity # NONE \/ res.headers # NONE

\* the identity the request got is the one of the entry it read
GotCached ==
    /\ res.identity # NONE => res.identity[1] = res.seen[1].identity
    /\ res.headers # NONE =>
         /\ res.headers[1].x_auth_token = res.seen[1].identity.token
         /\ res.headers[1].x_storage_url = res.seen[1].identity.account_url

\* the identity the request got is the provider's answer to this request
GotFromProvider ==
    /\ "validate_token" \in res.calls
    /\ res.identity = validate_token(HeaderToken(res.req)[1], res.pe)
    /\ res.headers = NONE

\* C2: on each of the three paths an entry with expires <= now is a miss
\* and the path's provider entry point is called; an identity the request
\* gets is the provider's answer to this request or that of an entry with
\* expires > now.
C2_ExpiredIsMiss ==
    Handled =>
      /\ \A ns \in res.reads :
           SawExpired => (ProviderFor(ns) \in res.calls /\ res.src # "cache")
      /\ GotIdentity => (GotFromProvider \/ (SawFresh /\ GotCached))

\* an expired token entry was read, the provider was asked and its identity
\* is on the request
C2_Witness ==
    /\ Handled
    /\ "token" \in res.reads
    /\ SawExpired
    /\ "validate_token" \in res.calls
    /\ res.identity # NONE

\* the request read the token cache
TokenPathRead == Handled /\ "token" \in res.reads

\* the request was answered from the entry it read, with no provider call
ServedFromCache ==
    /\ res.calls = {}
    /\ res.identity = Some(res.seen[1].identity)

\* C3 as stated: for every configuration, a token request that finds the
\* entry an earlier request wrote, before its expiry, gets that identity
\* with no provider call.
C3_WriteThenRead == (TokenPathRead /\ SawFresh) => ServedFromCache

\* C3: the same for every configuration with cache_timeout > 0.
C3_WriteThenReadCaching ==
    (TokenPathRead /\ SawFresh /\ conf.cache_timeout > 0) => ServedFromCache

\* a token request served from the entry an earlier request wrote
C3_Witness ==
    /\ TokenPathRead
    /\ SawFresh
    /\ conf.cache_timeout > 0
    /\ ServedFromCache
    /\ res.seen[1].identity = ProviderIdentity(HeaderToken(res.req)[1], MaxExpires)


\* authorize has decided on the forwarded request
AuthorizeRan == dec # NoDecision /\ dec.rule # "denied_response"

\* version, account, container and object of the forwarded path
ParsedPath == split_path(res.path, 1, 4)

\* the path has an account that passes the reseller-prefix gate
GatePassed ==
    /\ ParsedPath.ok
    /\ PrefixGate(conf, ParsedPath.segs[2])

\* the account, after the prefix is stripped, is the identity's
OwnedPath ==
    /\ GatePassed
    /\ res.identity # NONE
    /\ StripPrefix(conf, ParsedPath.segs[2][1]) = res.identity[1].account

\* the path has no object segment
NoObject == ParsedPath.segs[4] = NONE \/ ParsedPath.segs[4][1] = <<>>

\* the referer matches a referrer rule of the ACL, on a container that
\* is not listable
ReferrerOnUnlistable ==
    /\ referrer_allowed(dec.a.referer, dec.a.referrers)
    /\ NoObject
    /\ ".rlistings" \notin dec.a.groups

Denied == dec.status \in {"401", "403"}

\* C4: a path whose account passes the gate and, stripped, is the
\* identity's account is allowed with owner status, whatever the ACL, the
\* referer, the sync inputs and the roles are.
C4_OwnerAllowed ==
    (AuthorizeRan /\ OwnedPath) => (dec.status = "allow" /\ dec.owner)

\* the owner is allowed where the referrer rule alone would deny
C4_Witness ==
    /\ AuthorizeRan
    /\ OwnedPath
    /\ ReferrerOnUnlistable
    /\ dec.status = "allow"
    /\ dec.owner

\* C5: without ownership and container sync, a referrer match on a
\* container path with no object and no '.rlistings' group is denied by the
\* referrer rule, also when a role of the identity is an ACL group.
C5_ReferrerDenies ==
    (/\ AuthorizeRan
     /\ GatePassed
     /\ ~OwnedPath
     /\ ~SyncAllowed(conf, dec.a)
     /\ ReferrerOnUnlistable)
    => (Denied /\ dec.rule = "referrer")

\* the referrer rule denies a request whose role is an ACL group
C5_Witness ==
    /\ AuthorizeRan
    /\ GatePassed
    /\ ~OwnedPath
    /\ ~SyncAllowed(conf, dec.a)
    /\ ReferrerOnUnlistable
    /\ RoleAllowed(res.identity, dec.a.groups)
    /\ Denied
    /\ dec.rule = "referrer"

\* the header has the S3 marker and does not split into a non-empty key
\* and a non-empty signature
S3Malformed(env) == HasS3Marker(env) /\ ~S3WellFormed(env)

\* C6: a request with a malformed S3 Authorization header is denied with
\* 401 at once: no error, no provider call, no cache read.
C6_MalformedDenied ==
    (Handled /\ S3Malformed(res.req))
    => (/\ DeniedByCall
        /\ res.exc = "none"
        /\ res.calls = {}
        /\ res.reads = {}
        /\ dec # NoDecision => dec.status = "401")

\* a request for a token with both X-Auth-User and X-Auth-Key
AuthRequestWithCreds(env) ==
    /\ env.auth = NONE
    /\ split_path(env.path, 1, 2).ok
    /\ env.path[1] \in AuthUrlPieces
    /\ Truthy(env.user)
    /\ Truthy(env.key)

\* a non-expired entry is cached under the request's credentials, and the
\* cache is in use
CredsCacheUsable(env, t) ==
    LET e == Lookup(cache.creds, <<env.user[1], env.key[1]>>) IN
    /\ conf.cache_timeout > 0
    /\ e # NONE
    /\ e[1].expires > t

\* the token response made of an identity
TokenResponse(identity) ==
    Some([x_auth_token |-> identity.token,
          x_storage_token |-> identity.token,
          x_storage_url |-> identity.account_url])

\* C7: a request for a token with both credentials and no usable cache
\* entry asks the provider's credential entry point; an identity is
\* answered directly with the token headers, a failure is denied, and the
\* request is never forwarded as anonymous.
C7_CredentialsResolved ==
    (/\ Handled
     /\ AuthRequestWithCreds(res.req)
     /\ ~CredsCacheUsable(res.req, res.at))
    => (/\ "get_identity" \in res.calls
        /\ res.pe > 0 =>
             /\ res.out = "respond"
             /\ res.headers = TokenResponse(get_identity(res.pe)[1])
        /\ res.pe = 0 => DeniedByCall
        /\ ~ForwardedAnonymous)

\* the S3 request resolves: the cached secret gives the request's
\* signature, or nothing usable is cached and the provider answers
S3Succeeds(env, t, pe) ==
    /\ S3WellFormed(env)
    /\ \/ S3CacheUsable(env, t) /\ Challenge(env).ok /\ ~S3Mismatch(env)
       \/ ~S3CacheUsable(env, t) /\ pe > 0

\* the identity an S3 request resolves to
S3Identity(env, t, pe) ==
    IF S3CacheUsable(env, t)
    THEN cache.s3key[S3Pair(env)[1]][1].data.identity
    ELSE get_s3_identity(pe)[1]

\* '<reseller_prefix>_<account>', the bare account without a prefix
MappedAccount(account) ==
    IF conf.reseller_prefix = <<>> THEN account
    ELSE conf.reseller_prefix \o <<"_">> \o account

\* C8: every S3 request that resolves, from the cache or from the provider,
\* is forwarded with the access-key segment of its path replaced by the
\* mapped account and with the identity on its context.
C8_S3PathRewritten ==
    (Handled /\ S3Succeeds(res.req, res.at, res.pe))
    => (/\ res.out = "app"
        /\ res.hook = "authorize"
        /\ res.identity = Some(S3Identity(res.req, res.at, res.pe))
        /\ res.path[2] =
             MappedAccount(S3Identity(res.req, res.at, res.pe).account))

\* C9: a denial is 403 exactly when an identity was resolved for the
\* request, and 401 exactly when none was.
C9_StatusByIdentity ==
    Denied => (dec.status = "403" <=> res.identity # NONE)

\* the provider was asked to validate the token and gave no identity
TokenValidationFailed(r) == "validate_token" \in r.calls /\ r.pe = 0

\* C10: when validate_token gives no identity the request is forwarded with
\* the deny-only hook, which answers 401; no identity and no REMOTE_USER
\* are stored and the cache is left as it was.
C10_FailedTokenDenied ==
    [][/\ (res = Idle /\ res' # Idle /\ TokenValidationFailed(res'))
           => (/\ res'.out = "app"
               /\ res'.hook = "denied_response"
               /\ res'.identity = NONE
               /\ res'.remote_user = NONE
               /\ cache' = cache)
       /\ (TokenValidationFailed(res) /\ dec = NoDecision /\ dec' # NoDecision)
           => dec'.status = "401"]_vars

\* a failed validation was answered 401 while another token is cached
C10_Witness ==
    /\ TokenValidationFailed(res)
    /\ dec.status = "401"
    /\ dec.rule = "denied_response"
    /\ \E k \in DOMAIN cache.token : cache.token[k] # NONE

\* the request carries neither token header
NoTokenHeader(env) == env.xtoken = NONE /\ env.stoken = NONE

\* the leading path segment is one of the auth pieces
AuthPath(env) == env.path # <<>> /\ env.path[1] \in AuthUrlPieces

\* a request without an S3 Authorization header, without a token, and not
\* an auth request
AnonymousRequest ==
    /\ Handled
    /\ ~HasS3Marker(res.req)
    /\ NoTokenHeader(res.req)
    /\ ~AuthPath(res.req)

\* the path begins with a non-empty segment
LeadingSegment(env) == env.path # <<>> /\ env.path[1] # <<>>

\* neither the referrer ACL nor the container-sync key matches
NoAclNoSync ==
    /\ ~referrer_allowed(dec.a.referer, dec.a.referrers)
    /\ ~(dec.a.sync_key # NONE /\ dec.a.sync_key = dec.a.hdr_sync_key)

\* forwarded as anonymous without a cache read or a provider call, and
\* refused with 401 by authorize when no referrer rule and no sync key match
AnonymousOutcome ==
    /\ ForwardedAnonymous
    /\ res.calls = {}
    /\ res.reads = {}
    /\ res.wrote = NONE
    /\ (AuthorizeRan /\ NoAclNoSync => dec.status = "401" /\ ~dec.owner)

\* C11 as stated: a request with no S3 Authorization header and no token,
\* not an auth request, is forwarded with the full hook and no identity,
\* without a cache or provider call, and authorize then answers 401 when no
\* referrer rule and no sync key match.
C11_AnonymousForwarded == AnonymousRequest => AnonymousOutcome

\* C11: the same, for a request whose path begins with a non-empty segment
\* (without one, __call__ answers 404 itself when there is no Authorization
\* header).
C11_AnonymousForwardedParsed ==
    AnonymousRequest /\ LeadingSegment(res.req) => AnonymousOutcome

C11_Witness ==
    /\ AnonymousRequest
    /\ LeadingSegment(res.req)
    /\ res.req.auth = NONE
    /\ AuthorizeRan
    /\ NoAclNoSync
    /\ GatePassed
    /\ "admin" \in dec.a.groups
    /\ dec.status = "401"

\* the forwarded path has a non-empty version segment
VersionSegment == res.path # <<>> /\ res.path[1] # <<>>

\* the forwarded path has an account segment after the version
AccountSegment == VersionSegment /\ Len(res.path) >= 2

\* C12 as stated: in authorize every path without an account segment (only
\* a version segment, or unparseable) is answered 404, never 401 or 403,
\* whatever the identity.
C12_NoAccountNotFound ==
    AuthorizeRan /\ ~AccountSegment => dec.status = "404"

\* C12: in authorize a path is answered 404 exactly when it has no
\* non-empty version segment, whatever the identity; a path with a version
\* segment and no account segment is denied by denied_response, 403 with a
\* remote user and 401 without.
C12_UnparsedNotFound ==
    AuthorizeRan =>
        /\ (dec.status = "404" <=> ~VersionSegment)
        /\ (VersionSegment /\ ~AccountSegment =>
                /\ ~dec.owner
                /\ dec.status =
                     (IF res.identity # NONE /\ res.identity[1].roles # <<>>
                      THEN "403" ELSE "401"))

\* both cases of C12 are reached: an unparseable path, and '/v1' with an
\* identity and a role ACL that would let it in
C12_WitnessUnparsed ==
    /\ AuthorizeRan
    /\ ~VersionSegment
    /\ dec.status = "404"

C12_Witness ==
    /\ AuthorizeRan
    /\ VersionSegment
    /\ ~AccountSegment
    /\ res.identity # NONE
    /\ "admin" \in dec.a.groups
    /\ dec.status = "403"

\* the forwarded path has an account segment that does not start with the
\* reseller prefix
AccountOutsidePrefix ==
    /\ AccountSegment
    /\ ~StartsWith(res.path[2], conf.reseller_prefix)

\* the status denied_response gives the forwarded request
DenialStatus ==
    IF res.identity # NONE /\ res.identity[1].roles # <<>>
    THEN "403" ELSE "401"

\* C13 as stated: an account segment that does not start with the reseller
\* prefix is answered 401 for every identity, no later rule allows it, and
\* with an empty prefix the gate never denies.
C13_GateUnauthorized ==
    AuthorizeRan =>
        /\ (AccountOutsidePrefix => dec.status = "401" /\ ~dec.owner)
        /\ (conf.reseller_prefix = <<>> => dec.rule # "gate")

\* C13: an account segment that does not start with the reseller prefix is
\* denied by denied_response (403 with a remote user, 401 without), no
\* later rule allows it, and with an empty prefix the gate denies only a
\* path whose account segment is missing or empty.
C13_GateDenies ==
    AuthorizeRan =>
        /\ (AccountOutsidePrefix =>
                /\ dec.status = DenialStatus
                /\ dec.rule = "gate"
                /\ ~dec.owner)
        /\ (conf.reseller_prefix = <<>> /\ dec.rule = "gate" =>
                ~AccountSegment \/ res.path[2] = <<>>)

\* account 'a' under the prefix 'R', asked by the identity of account 'a'
\* with a role the ACL names
C13_Witness ==
    /\ AuthorizeRan
    /\ AccountOutsidePrefix
    /\ res.identity # NONE
    /\ res.identity[1].account = res.path[2]
    /\ "admin" \in dec.a.groups
    /\ dec.status = "403"

\* the account segment, with the prefix and one more character removed when
\* there is a prefix, is the account of the request's identity
AccountOfIdentity ==
    /\ AccountSegment
    /\ res.identity # NONE
    /\ res.identity[1].account =
         (IF conf.reseller_prefix = <<>> THEN res.path[2]
          ELSE SubSeq(res.path[2], Len(conf.reseller_prefix) + 2,
                      Len(res.path[2])))

\* C14: swift_owner is set only by the ownership rule: when authorize has
\* set it, the request is allowed and the stripped account is the
\* identity's; an allow by container sync, referrer ACL or role ACL leaves
\* it unset, and without an identity it is never set.
C14_OwnerOnlyByOwnership ==
    AuthorizeRan =>
        /\ (dec.owner => dec.status = "allow" /\ AccountOfIdentity)
        /\ (dec.status = "allow" /\ ~AccountOfIdentity => ~dec.owner)
        /\ (res.identity = NONE => ~dec.owner)

\* an allow by the role ACL, on another account's container, without owner
\* status
C14_Witness ==
    /\ AuthorizeRan
    /\ res.identity # NONE
    /\ ~AccountOfIdentity
    /\ dec.status = "allow"
    /\ ~referrer_allowed(dec.a.referer, dec.a.referrers)
    /\ dec.a.sync_key = NONE
    /\ ~dec.owner

\* the other allows without owner status: by container sync and by the
\* referrer ACL, for a request without identity
C14_WitnessAnonymous ==
    /\ AuthorizeRan
    /\ res.identity = NONE
    /\ dec.status = "allow"
    /\ ~dec.owner

\* the credentials request was answered with a cached identity, without
\* asking the provider
AnsweredFromCredsCache ==
    /\ res.out = "respond"
    /\ "get_identity" \notin res.calls

\* C16: on the credentials path a cached entry is used only if X-Auth-TTL
\* is not zero (absent counts as enabled) and the entry expires in the
\* future; a request with X-Auth-TTL zero and a fresh entry goes to the
\* provider.
C16_TtlZeroBypassesCache ==
    Handled /\ AuthRequestWithCreds(res.req) =>
        /\ (AnsweredFromCredsCache =>
                /\ res.req.ttl # Some("0")
                /\ CredsCacheUsable(res.req, res.at))
        /\ (res.req.ttl = Some("0") /\ CredsCacheUsable(res.req, res.at) =>
                "get_identity" \in res.calls)

\* an Authorization header is present and does not begin with the S3 marker
NonS3Authorization(env) ==
    /\ env.auth # NONE
    /\ ~StartsWith(env.auth[1], AWS)

\* C17: a request whose Authorization header does not begin with the S3
\* marker is handled as one without the header: with a token it takes the
\* token path, with credentials on an auth path the credentials path; it is
\* never forwarded as anonymous when it carries a token or credentials, and
\* no exception leaves __call__.
C17_NonS3LikeNoHeader ==
    Handled /\ NonS3Authorization(res.req) =>
        /\ res.out # "raise"
        /\ (Truthy(HeaderToken(res.req)) =>
                /\ ~ForwardedAnonymous
                /\ (~AuthPath(res.req) => "token" \in res.reads))
        /\ (AuthPath(res.req) /\ Truthy(res.req.user) /\ Truthy(res.req.key) =>
                /\ ~ForwardedAnonymous
                /\ ("creds" \in res.reads \/ "get_identity" \in res.calls))

\* the four conditions of container sync: a non-empty sync key on the
\* container, the same key in the request, a timestamp header, and a client
\* address among the allowed sync hosts
SyncConditions ==
    /\ dec.a.sync_key # NONE
    /\ dec.a.sync_key[1] # ""
    /\ dec.a.hdr_sync_key = dec.a.sync_key
    /\ dec.a.timestamp
    /\ \E h \in conf.allowed_sync_hosts :
          h = dec.a.remote_addr \/ h = dec.a.remote_client

\* what the referrer ACL, the role ACL and the final denial give
AclOutcome ==
    IF referrer_allowed(dec.a.referer, dec.a.referrers)
    THEN (IF ~NoObject \/ ".rlistings" \in dec.a.groups
          THEN "allow" ELSE DenialStatus)
    ELSE IF /\ res.identity # NONE
            /\ \E i \in 1..Len(res.identity[1].roles) :
                  res.identity[1].roles[i] \in dec.a.groups
    THEN "allow" ELSE DenialStatus

\* C18: past the gate and the ownership rule, container sync allows, without
\* owner status, when its four conditions hold together; when one of them
\* fails it does not allow and the answer is that of the referrer ACL and
\* the rules after it.
C18_SyncNeedsAll ==
    AuthorizeRan /\ GatePassed /\ ~AccountOfIdentity =>
        /\ (SyncConditions => dec.status = "allow" /\ ~dec.owner)
        /\ (dec.rule = "sync" => SyncConditions)
        /\ (~SyncConditions => dec.status = AclOutcome)

\* container sync allows what the ACL rules would deny
C18_Witness ==
    /\ AuthorizeRan
    /\ GatePassed
    /\ ~AccountOfIdentity
    /\ SyncConditions
    /\ dec.a.remote_addr \notin conf.allowed_sync_hosts
    /\ AclOutcome # "allow"
    /\ dec.status = "allow"

\* a matching key without a timestamp falls to the ACL rules, which deny
C18_WitnessFails ==
    /\ AuthorizeRan
    /\ GatePassed
    /\ ~AccountOfIdentity
    /\ dec.a.sync_key # NONE
    /\ dec.a.sync_key[1] # ""
    /\ dec.a.hdr_sync_key = dec.a.sync_key
    /\ ~dec.a.timestamp
    /\ dec.status # "allow"

\* C19: with a non-empty reseller prefix P, owner status is given to an
\* identity only on the path account P, '_', and the identity's account; a
\* path account with another character after P is never owned.
C19_OwnerNeedsUnderscore ==
    (/\ AuthorizeRan
     /\ conf.reseller_prefix # <<>>
     /\ dec.owner)
    => (/\ res.identity # NONE
        /\ AccountSegment
        /\ res.path[2] =
             conf.reseller_prefix \o <<"_">> \o res.identity[1].account)

\* the provider answered some request carrying this token with this
\* identity
ProviderReturned(token, identity) ==
    \E q \in Procs :
        /\ reqs[q].token = Some(token)
        /\ reqs[q].got = Some(identity)

\* C15: for every interleaving of token requests running together, every
\* entry under a token's key is (I.expires, I) for an identity I the
\* provider returned for that token; a request that goes on with an
\* identity has one the provider returned for its own token (its own
\* answer when it asked), a request is denied only when the provider gave
\* its own call no identity, and no request has an identity of another
\* token.
C15_RaceHarmless ==
    /\ \A token \in DOMAIN cache.token :
          cache.token[token] # NONE =>
              /\ cache.token[token][1].expires =
                     cache.token[token][1].identity.expires
              /\ cache.token[token][1].identity.token = token
              /\ ProviderReturned(token, cache.token[token][1].identity)
    /\ \A p \in Procs :
          /\ reqs[p].pc \in {"finish", "done"} =>
                /\ reqs[p].identity # NONE
                /\ reqs[p].identity[1].token = reqs[p].token[1]
                /\ ProviderReturned(reqs[p].token[1], reqs[p].identity[1])
                /\ (reqs[p].got # NONE => reqs[p].identity = reqs[p].got)
          /\ reqs[p].pc = "denied" =>
                /\ reqs[p].identity = NONE
                /\ reqs[p].got = NONE

\* two requests with one token both missed the cache, were given different
\* identities by the provider and wrote both; each went on with its own
\* while a request with the other token went its own way
C15_Witness ==
    /\ reqs[1].pc = "done"
    /\ reqs[2].pc = "done"
    /\ reqs[1].token = reqs[2].token
    /\ reqs[1].got # NONE
    /\ reqs[2].got # NONE
    /\ reqs[1].got # reqs[2].got
    /\ cache.token[reqs[1].token[1]] # NONE
    /\ cache.token[reqs[1].token[1]][1].identity = reqs[1].got[1]

\* a request served by the entry another request wrote
C15_WitnessServed ==
    \E p \in Procs :
        /\ reqs[p].pc = "done"
        /\ reqs[p].got = NONE
        /\ reqs[p].identity # NONE

====
